---- MODULE Spec2Model ----
(***************************************************************************)
(* GPT-NEO: model_fn (src/model_fns.py) and the GPT-2 style model in       *)
(* Mesh-TensorFlow (src/models/gpt2/gpt2.py).                              *)
(*                                                                         *)
(* Five specifications share the variables below:                          *)
(*   Spec       one invocation of model_fn, step by step                   *)
(*   SpecModel  one invocation of gpt2.model with a complete argument list *)
(*   SpecLoss   the serialized accumulation of the training loss           *)
(*   SpecLinear linear_attention applied to a pair of inputs               *)
(*   SpecBlock  the embedding dropout and one block, call by call          *)
(***************************************************************************)
EXTENDS Integers, Sequences, FiniteSets, TLC

VARIABLES
    \* ---- model_fn (src/model_fns.py) ----
    mode,            \* the estimator mode key of the invocation
    params,          \* the params dict (the entries model_fn reads)
    pc,              \* position in model_fn
    graph,           \* mtf.Graph: the append-only sequence of operations
    lowerings,       \* the mtf.Lowering objects constructed, in order
    exports,         \* lowering.export_to_tf_tensor calls, in order
    built,           \* logits / loss / loss_batch / var_grads after the build
    optimizerCall,   \* how get_optimizer was called
    serializeCalls,  \* number of mtf.serialize_training_step calls
    modelCalls,      \* number of gpt2.model calls made by model_fn
    layoutSearch,    \* the auto_mtf search that ran
    outcome,         \* how the invocation ended
    estimatorSpec,   \* the TPUEstimatorSpec returned
    \* ---- gpt2.model (src/models/gpt2/gpt2.py) ----
    m_pc,            \* position in gpt2.model
    m_params,        \* the params dict (the entries gpt2.py reads)
    context,         \* the decode context passed in (or NoContext)
    layer,           \* loop variable of the block stack
    aux_losses,      \* accumulated auxiliary loss
    attnLog,         \* one record per attn call of this invocation
    blockAux,        \* the auxiliary loss each block returned, in layer order
    m_error,         \* the layer whose construction raised, 0 if none
    m_ret,           \* (logits, loss, loss_batch) returned
    \* ---- serialized loss accumulation ----
    s_pc, s_N, s_batch, s_aux, s_mb, s_acc,
    \* ---- linear_attention on two inputs ----
    l_pc, l_a, l_b, l_out_a, l_out_b,
    \* ---- one block (gpt2.block) in detail ----
    b_pc,            \* position in the block
    b_params,        \* the params entries block, attn, mlp and mlp_glu read
    b_x,             \* the residual stream x, as the sequence of its summands
    b_calls,         \* the calls made so far, in order
    b_variables,     \* the variables created so far
    b_recorded,      \* number of states recorded into the context
    b_error          \* the exception raised, "" if none

fnVars   == <<mode, params, pc, graph, lowerings, exports, built, optimizerCall,
              serializeCalls, modelCalls, layoutSearch, outcome, estimatorSpec>>
mdlVars  == <<m_pc, m_params, context, layer, aux_losses, attnLog, blockAux,
              m_error, m_ret>>
lossVars == <<s_pc, s_N, s_batch, s_aux, s_mb, s_acc>>
linVars  == <<l_pc, l_a, l_b, l_out_a, l_out_b>>
blkVars  == <<b_pc, b_params, b_x, b_calls, b_variables, b_recorded, b_error>>
vars     == <<fnVars, mdlVars, lossVars, linVars, blkVars>>

(***************************************************************************)
(* Bounds of the model.                                                    *)
(***************************************************************************)
MaxMicrobatches == 3
NLayer == 2
NCtx == 3
MaxMbSize == 2
MaxSeq == 3

Range(s) == {s[i] : i \in 1..Len(s)}

(***************************************************************************)
(* Symbolic tensors and graph operations.                                  *)
(***************************************************************************)
T(n) == [name |-> n, anonymized |-> FALSE]

\* mtf.anonymize(t): a new, fully replicated tensor carrying t's data
anonymize(t) == [t EXCEPT !.anonymized = TRUE]

Op(kind, t) == [op |-> kind, out |-> t]

Modes == {"TRAIN", "EVAL", "PREDICT"}
ModelNames == {"GPT2", "GPTX"}

NoBuild == [logits |-> {}, loss |-> {}, loss_batch |-> {}, var_grads |-> FALSE]

NoSpec == [mode |-> "none", loss |-> {}, train_op |-> {}, predictions |-> {},
           eval_metrics |-> {}, hooks |-> <<>>, local_init |-> {}]

\* a restore hook that holds a lowering of some other invocation
MtfRestoreHookForeign(arg, lows) == <<[arg |-> arg, lowering |-> 0]>>

\* [mtf.MtfRestoreHook(lowering)] passed as training_hooks, evaluation_hooks
\* or prediction_hooks: the hook holds the lowering constructed last
MtfRestoreHook(arg, lows) == <<[arg |-> arg, lowering |-> Len(lows)]>>

(***************************************************************************)
(* The call gpt2.model(mtf_features, other_features, params, mesh).        *)
(***************************************************************************)
\* def model(mtf_features, other_features, params, mesh, variable_dtype, context=None)
ModelSignature ==
    <<"mtf_features", "other_features", "params", "mesh", "variable_dtype", "context">>

ModelDefaults == {"context"}

\* the number of positional arguments model_fn passes (and no keyword ones)
ModelFnCallArgs == 4

\* Python's argument binding: every parameter without a default needs a value
CallBinds(sig, defaults, nargs, kwargs) ==
    \A i \in 1..Len(sig) : i <= nargs \/ sig[i] \in kwargs \/ sig[i] \in defaults

\* what gpt2.model returns to model_fn, by params["mode"]
ModelOutputs(pmode) ==
    [logits |-> {T("logits")},
     loss |-> IF pmode = "train" THEN {T("loss")} ELSE {},
     loss_batch |-> IF pmode = "train" THEN {T("loss_batch")} ELSE {}]

ModelOpsOf(out) ==
    <<Op("model", T("logits"))>>
    \o (IF out.loss = {} THEN <<>> ELSE <<Op("model", T("loss_batch")), Op("model", T("loss"))>>)

(***************************************************************************)
(* model_fn, lines 16-101: graph, mesh, imported features, dimensions.     *)
(***************************************************************************)
Construct ==
    /\ pc = "start"
    /\ graph' = <<Op("import_fully_replicated", T("inputs"))>>
                \o (IF mode = "PREDICT" THEN <<>>
                    ELSE <<Op("import_fully_replicated", T("labels"))>>)
                \o <<Op("biasmask_attn_weights", T("attn_bias"))>>
    /\ pc' = IF mode = "PREDICT" THEN "predict" ELSE "microbatches"
    /\ UNCHANGED <<mode, params, lowerings, exports, built, optimizerCall,
                   serializeCalls, modelCalls, layoutSearch, outcome, estimatorSpec>>

(***************************************************************************)
(* PREDICT, lines 103-136.                                                 *)
(***************************************************************************)
\* sample_autoregressive builds the sampling loop in the graph and returns
\* the generated sequences; it does not read params["model"]
sample_autoregressive(g) == g \o <<Op("sample_autoregressive", T("mtf_samples"))>>

PredictSample ==
    /\ pc = "predict"
    /\ graph' = sample_autoregressive(graph)
    /\ pc' = "predict_anonymize"
    /\ UNCHANGED <<mode, params, lowerings, exports, built, optimizerCall,
                   serializeCalls, modelCalls, layoutSearch, outcome, estimatorSpec>>

PredictAnonymizeOps ==
    <<Op("anonymize", anonymize(T("mtf_samples"))), Op("anonymize", anonymize(T("inputs")))>>

PredictAnonymize ==
    /\ pc = "predict_anonymize"
    /\ graph' = graph \o PredictAnonymizeOps
    /\ pc' = "predict_lower"
    /\ UNCHANGED <<mode, params, lowerings, exports, built, optimizerCall,
                   serializeCalls, modelCalls, layoutSearch, outcome, estimatorSpec>>

\* a lowering that was constructed before the last operation was added
LoweringBeforeLastOp(g) ==
    [graphLen |-> Len(g) - 1, ops |-> {g[i] : i \in 1..(Len(g) - 1)}]

\* mtf.Lowering(graph, {mesh: mesh_impl}): lowers the operations present now
Lowering(g) == [graphLen |-> Len(g), ops |-> Range(g)]

PredictLower ==
    /\ pc = "predict_lower"
    /\ lowerings' = Append(lowerings, Lowering(graph))
    /\ pc' = "predict_export"
    /\ UNCHANGED <<mode, params, graph, exports, built, optimizerCall,
                   serializeCalls, modelCalls, layoutSearch, outcome, estimatorSpec>>

\* the generated sequences exported as they are, not their anonymized copy
PredictExportsRaw == <<T("inputs"), anonymize(T("inputs")), T("mtf_samples")>>

\* the three tensors exported at lines 111-113, in order
PredictExports == <<T("inputs"), anonymize(T("inputs")), anonymize(T("mtf_samples"))>>

Export(t, low) == [tensor |-> t, lowering |-> low]

PredictExport ==
    /\ pc = "predict_export"
    /\ exports' = exports \o [i \in 1..Len(PredictExports) |->
                                 Export(PredictExports[i], Len(lowerings))]
    /\ pc' = "predict_return"
    /\ UNCHANGED <<mode, params, graph, lowerings, built, optimizerCall,
                   serializeCalls, modelCalls, layoutSearch, outcome, estimatorSpec>>

PredictReturn ==
    /\ pc = "predict_return"
    /\ estimatorSpec' = [NoSpec EXCEPT
            !.mode = "PREDICT",
            !.predictions = {<<"orig_inputs", exports[1].tensor>>,
                             <<"inputs", exports[2].tensor>>,
                             <<"outputs", exports[3].tensor>>},
            !.hooks = MtfRestoreHook("prediction_hooks", lowerings),
            !.local_init = {Len(lowerings)}]
    /\ outcome' = "returned"
    /\ pc' = "done"
    /\ UNCHANGED <<mode, params, graph, lowerings, exports, built, optimizerCall,
                   serializeCalls, modelCalls, layoutSearch>>

(***************************************************************************)
(* TRAIN / EVAL, lines 139-169: microbatch count and model build.          *)
(***************************************************************************)
NumMicrobatches ==
    /\ pc = "microbatches"
    /\ \E n \in 1..MaxMicrobatches : params' = [params EXCEPT !.num_microbatches = n]
    /\ pc' = "build"
    /\ UNCHANGED <<mode, graph, lowerings, exports, built, optimizerCall,
                   serializeCalls, modelCalls, layoutSearch, outcome, estimatorSpec>>

ModelFnCallBinds == CallBinds(ModelSignature, ModelDefaults, ModelFnCallArgs, {})

\* lines 148-161: serialize_training_step runs serialized_fn; serialized_fn
\* calls gpt2.model for "GPT2" and falls off its end (returns None) otherwise,
\* and serialize_training_step then subscripts that None.
BuildSerialized ==
    /\ pc = "build"
    /\ params.num_microbatches > 1
    /\ serializeCalls' = serializeCalls + 1
    /\ modelCalls' = IF params.model = "GPT2" THEN modelCalls + 1 ELSE modelCalls
    /\ IF params.model = "GPT2" /\ ModelFnCallBinds
       THEN /\ graph' = graph \o ModelOpsOf(ModelOutputs(params.mode))
            /\ built' = ModelOutputs(params.mode) @@ [var_grads |-> TRUE]
            /\ pc' = "built"
            /\ outcome' = outcome
       ELSE /\ outcome' = "TypeError"
            /\ pc' = "done"
            /\ UNCHANGED <<graph, built>>
    /\ UNCHANGED <<mode, params, lowerings, exports, optimizerCall,
                   layoutSearch, estimatorSpec>>

InvalidModelOutcome == "Exception"

\* lines 162-169
BuildDirect ==
    /\ pc = "build"
    /\ ~(params.num_microbatches > 1)
    /\ modelCalls' = IF params.model = "GPT2" THEN modelCalls + 1 ELSE modelCalls
    /\ IF params.model = "GPT2"
       THEN IF ModelFnCallBinds
            THEN /\ graph' = graph \o ModelOpsOf(ModelOutputs(params.mode))
                 /\ built' = ModelOutputs(params.mode) @@ [var_grads |-> FALSE]
                 /\ pc' = "built"
                 /\ outcome' = outcome
            ELSE /\ outcome' = "TypeError"
                 /\ pc' = "done"
                 /\ UNCHANGED <<graph, built>>
       ELSE /\ outcome' = InvalidModelOutcome
            /\ pc' = "done"
            /\ UNCHANGED <<graph, built>>
    /\ UNCHANGED <<mode, params, lowerings, exports, optimizerCall,
                   serializeCalls, layoutSearch, estimatorSpec>>

(***************************************************************************)
(* TRAIN / EVAL, lines 171-279: the rest of model_fn.  Every step below    *)
(* starts from pc = "built", which needs the gpt2.model call to bind       *)
(* (ModelFnCallBinds); the steps are kept in NextAfterBuild.               *)
(***************************************************************************)
\* lines 173-178
AutoLayout ==
    /\ pc = "built"
    /\ params.auto_layout
    /\ layoutSearch' = [kind |-> "layout", targets |-> <<built.logits, built.loss>>,
                        max_mesh_shape_dimensions |-> 0]
    /\ outcome' = "quit"
    /\ pc' = "done"
    /\ UNCHANGED <<mode, params, graph, lowerings, exports, built, optimizerCall,
                   serializeCalls, modelCalls, estimatorSpec>>

MaxMeshShapeDimensions == 4

\* lines 179-189
AutoLayoutAndMeshShape ==
    /\ pc = "built"
    /\ ~params.auto_layout
    /\ params.auto_layout_and_mesh_shape
    /\ layoutSearch' = [kind |-> "layout_and_mesh_shape",
                        targets |-> <<built.logits, built.loss>>,
                        max_mesh_shape_dimensions |-> MaxMeshShapeDimensions]
    /\ outcome' = "quit"
    /\ pc' = "done"
    /\ UNCHANGED <<mode, params, graph, lowerings, exports, built, optimizerCall,
                   serializeCalls, modelCalls, estimatorSpec>>

NoAutoLayout == ~params.auto_layout /\ ~params.auto_layout_and_mesh_shape

\* lines 192-199
Optimizer ==
    /\ pc = "built"
    /\ NoAutoLayout
    /\ mode = "TRAIN"
    /\ optimizerCall' = IF params.num_microbatches > 1 THEN "inp_var_grads" ELSE "plain"
    /\ graph' = graph \o <<Op("update", T("update_ops"))>>
    /\ pc' = "lower"
    /\ UNCHANGED <<mode, params, lowerings, exports, built, serializeCalls,
                   modelCalls, layoutSearch, outcome, estimatorSpec>>

\* lines 200-204: mtf.anonymize of a None raises
AnonymizeEval ==
    /\ pc = "built"
    /\ NoAutoLayout
    /\ mode # "TRAIN"
    /\ IF built.loss_batch = {}
       THEN /\ graph' = graph \o <<Op("anonymize", anonymize(T("logits")))>>
            /\ outcome' = "AttributeError"
            /\ pc' = "done"
       ELSE /\ graph' = graph \o <<Op("anonymize", anonymize(T("logits"))),
                                   Op("anonymize", anonymize(T("loss_batch")))>>
            /\ outcome' = outcome
            /\ pc' = "lower"
    /\ UNCHANGED <<mode, params, lowerings, exports, built, optimizerCall,
                   serializeCalls, modelCalls, layoutSearch, estimatorSpec>>

\* lines 206-212
Lower ==
    /\ pc = "lower"
    /\ lowerings' = Append(lowerings, Lowering(graph))
    /\ exports' = exports \o <<Export(T("loss"), Len(lowerings) + 1),
                               Export(T("loss_batch"), Len(lowerings) + 1)>>
    /\ pc' = "lowered"
    /\ UNCHANGED <<mode, params, graph, built, optimizerCall, serializeCalls,
                   modelCalls, layoutSearch, outcome, estimatorSpec>>

\* lines 214-219 and 224-257
ReturnTrain ==
    /\ pc = "lowered"
    /\ mode = "TRAIN"
    /\ estimatorSpec' = [NoSpec EXCEPT
            !.mode = "TRAIN",
            !.loss = {exports[1].tensor},
            !.train_op = {o \in Range(graph) : o.op = "update"}
                         \cup {Op("assign_add", T("global_step"))},
            !.hooks = MtfRestoreHook("training_hooks", lowerings)]
    /\ outcome' = "returned"
    /\ pc' = "done"
    /\ UNCHANGED <<mode, params, graph, lowerings, exports, built, optimizerCall,
                   serializeCalls, modelCalls, layoutSearch>>

\* lines 220-222 and 259-279
ReturnEval ==
    /\ pc = "lowered"
    /\ mode = "EVAL"
    /\ exports' = exports \o <<Export(anonymize(T("logits")), Len(lowerings)),
                               Export(anonymize(T("loss_batch")), Len(lowerings))>>
    /\ estimatorSpec' = [NoSpec EXCEPT
            !.mode = "EVAL",
            !.loss = {exports[1].tensor},
            !.eval_metrics = {anonymize(T("logits")), anonymize(T("loss_batch"))},
            !.hooks = MtfRestoreHook("evaluation_hooks", lowerings)]
    /\ outcome' = "returned"
    /\ pc' = "done"
    /\ UNCHANGED <<mode, params, graph, lowerings, built, optimizerCall,
                   serializeCalls, modelCalls, layoutSearch>>

NextAfterBuild ==
    \/ AutoLayout \/ AutoLayoutAndMeshShape \/ Optimizer \/ AnonymizeEval
    \/ Lower \/ ReturnTrain \/ ReturnEval

(***************************************************************************)
(* gpt2.model and the layers it builds (src/models/gpt2/gpt2.py).          *)
(***************************************************************************)
AttentionTypes == {"global", "local", "linear", "none"}

\* what a configuration can hold in attention_types: the four types and a typo
ConfiguredTypes == AttentionTypes \cup {"globl"}

Positions == 0..(NCtx - 1)

NoContext == [mode |-> "none", position |-> 0, states |-> <<>>, new_states |-> <<>>]

\* def is_incremental_inference(context)
is_incremental_inference(c) == c.mode # "none" /\ c.mode = "incremental"

\* def exists(x), for the context argument
exists(c) == c.mode # "none"

NoError == [layer |-> -1, kind |-> "none"]
NoRet == [logits |-> {}, loss |-> {}, loss_batch |-> {}]

(***************************************************************************)
(* Rationals <<numerator, denominator>> for the loss arithmetic.           *)
(***************************************************************************)
Rat(n) == <<n, 1>>
RatAdd(a, b) == <<a[1] * b[2] + b[1] * a[2], a[2] * b[2]>>
RatDiv(a, n) == <<a[1], a[2] * n>>
RatEq(a, b) == a[1] * b[2] = b[1] * a[2]

RECURSIVE SumSeq(_)
SumSeq(s) == IF s = <<>> THEN 0 ELSE Head(s) + SumSeq(Tail(s))

\* mtf.reduce_mean(loss_batch)
reduce_mean(lb) == <<SumSeq(lb), Len(lb)>>

\* the loss without the division by the microbatch count
FinalLossUnscaled(lb, aux, n) == RatAdd(reduce_mean(lb), aux)

\* lines 502-506: loss = reduce_mean(loss_batch); loss += aux_losses;
\* loss /= params["num_microbatches"]
FinalLoss(lb, aux, n) == RatDiv(RatAdd(reduce_mean(lb), aux), n)

(***************************************************************************)
(* attn, lines 138-285.  A cached key or value tensor is a function from   *)
(* sequence position to the origin of the entry held there.                *)
(***************************************************************************)
Entry(kind, l, step) == [kind |-> kind, layer |-> l, step |-> step]

\* k (or v) computed from x: in incremental mode x is the one current token
Computed(kind, l, c) == [i \in Positions |-> Entry(kind, l, c.position)]

\* the splice with the one-hot placed at position instead of position - 1
SpliceAtPosition(old, new, c) ==
    [i \in Positions |-> IF i = c.position THEN new[i] ELSE old[i]]

\* lines 165-169: old * inv_one_hot + new * one_hot, one_hot at position - 1
Splice(old, new, c) == [i \in Positions |-> IF i = c.position - 1 THEN new[i] ELSE old[i]]

\* Context.get_states(n): the next n states after those already recorded
get_states(c, n) ==
    SubSeq(c.states, Len(c.new_states) + 1,
           IF Len(c.new_states) + n <= Len(c.states) THEN Len(c.new_states) + n
           ELSE Len(c.states))

\* Context.record_new_states
record_new_states(c, new) == [c EXCEPT !.new_states = @ \o new]

\* the causal mask built once by model_fn (biasmask_attn_weights):
\* 0 where attention is allowed, a large negative number elsewhere
BiasAllows(i, j) == j <= i

\* mtf attention with bias: softmax weights are positive except where the
\* bias masks; without a bias every memory position gets a positive weight
GlobalSees(hasBias, i) == {j \in Positions : hasBias => BiasAllows(i, j)}

\* mtf local_attention_1d: query position p sees memory positions (p - radius, p]
LocalSees(radius, i) == {j \in Positions : i - radius < j /\ j <= i}

\* mtf.cumsum over the sequence dimension, as linear_attention uses it
CumsumSupport(i) == {j \in Positions : j <= i}

\* lines 179-270: the sequence positions the attention output `a` holds and,
\* for each, the key/value positions with a say in it
AttentionOutput(type, c, radius) ==
    LET inc == is_incremental_inference(c)
        cur == c.position - 1
    IN  CASE type = "local" ->
               \* q *= one_hot; local attention; gather position - 1 (lines 184-201)
               [positions |-> IF inc THEN {cur} ELSE Positions,
                sees |-> [i \in Positions |-> LocalSees(radius, i)]]
          [] type = "global" ->
               \* bias = None in incremental mode (line 170); q has no sequence axis
               [positions |-> IF inc THEN {cur} ELSE Positions,
                sees |-> [i \in Positions |-> GlobalSees(~inc, i)]]
          [] type = "linear" ->
               \* output_shape keeps seq_dim of v, and nothing gathers (lines 86-90, 267)
               [positions |-> Positions,
                sees |-> [i \in Positions |-> CumsumSupport(i)]]

\* the non-incremental pass: what position i of the full pass sees
FullPassSees(type, radius, i) == AttentionOutput(type, NoContext, radius).sees[i]

\* line 332: attention_type is not "none" compares object identity; `same` is
\* whether the configured string is the very object of the literal
IsNotNone(type, same) == ~(type = "none" /\ same)

(***************************************************************************)
(* linear, lines 94-108, as mlp and mlp_glu call it.                       *)
(***************************************************************************)
\* def linear(x, scope, nf, *, w_init_stdev=0.02, variable_dtype, params=None, scale=False)
LinearSignature ==
    <<"x", "scope", "nf", "w_init_stdev", "variable_dtype", "params", "scale">>

LinearDefaults == {"w_init_stdev", "params", "scale"}

LinearPositional == 3

\* line 301: linear(x, 'c_fc', n_state, params=params)
MlpGluFirstCallKwargs == {"params"}

MlpGluBinds == CallBinds(LinearSignature, LinearDefaults, LinearPositional, MlpGluFirstCallKwargs)

(***************************************************************************)
(* Inputs of a gpt2.model invocation.                                      *)
(***************************************************************************)
AuxValues == {0, 1}

\* an accumulator that keeps the last block's loss only
AccumulateLast(acc, loss) == loss

\* line 472: aux_losses += loss
Accumulate(acc, loss) == acc + loss
LossBatches == {<<2, 4>>, <<3>>}
Radius == 2

ModelParamSets ==
    [mode : {"train", "eval", "predict"},
     attention_types : [1..NLayer -> ConfiguredTypes],
     moe_layers : SUBSET (0..(NLayer - 1)),
     mlp_glu : BOOLEAN,
     local_attention_radius : {Radius},
     num_microbatches : {1}]

FirstPart == [mode |-> "first_part", position |-> 0, states |-> <<>>, new_states |-> <<>>]

(***************************************************************************)
(* model, lines 379-458: inputs and embeddings.                            *)
(***************************************************************************)
ModelEmbed ==
    /\ m_pc = "start"
    /\ m_pc' = "blocks"
    /\ layer' = 0
    /\ aux_losses' = 0
    /\ attnLog' = <<>>
    /\ blockAux' = <<>>
    /\ UNCHANGED <<m_params, context, m_error, m_ret>>

(***************************************************************************)
(* model, lines 460-472: one iteration of the block loop, with block       *)
(* (lines 311-373), attn and the feed-forward sub-layer it calls.          *)
(***************************************************************************)
ModelBlock ==
    /\ m_pc = "blocks"
    /\ layer < NLayer
    /\ \E same \in BOOLEAN, aux \in AuxValues :
        LET type == m_params.attention_types[layer + 1]
            inc == is_incremental_inference(context)
            callsAttn == IsNotNone(type, same)
            old == get_states(context, 2)
            short == callsAttn /\ inc /\ Len(old) < 2
            newK == Computed("k", layer, context)
            newV == Computed("v", layer, context)
            k == IF inc /\ ~short THEN Splice(old[1], newK, context) ELSE newK
            v == IF inc /\ ~short THEN Splice(old[2], newV, context) ELSE newV
            ctx1 == IF callsAttn /\ exists(context) /\ ~short
                    THEN record_new_states(context, <<k, v>>) ELSE context
            known == type \in {"local", "global", "linear"}
            use_moe == layer \in m_params.moe_layers
            entry == [layer |-> layer, type |-> type, incremental |-> inc,
                      position |-> context.position,
                      out |-> AttentionOutput(type, context, m_params.local_attention_radius)]
        IN  /\ (type # "none" => same)       \* identity matters for "none" only
            /\ (~use_moe => aux = 0)         \* line 368: zeros unless mixture-of-experts
            /\ context' = ctx1
            /\ IF short
               THEN /\ m_error' = [layer |-> layer, kind |-> "ValueError"]
                    /\ m_pc' = "error"
                    /\ UNCHANGED <<layer, aux_losses, attnLog, blockAux>>
               ELSE IF callsAttn /\ ~known
               THEN /\ m_error' = [layer |-> layer, kind |-> "NotImplementedError"]
                    /\ m_pc' = "error"
                    /\ UNCHANGED <<layer, aux_losses, attnLog, blockAux>>
               ELSE IF ~use_moe /\ m_params.mlp_glu /\ ~MlpGluBinds
               THEN /\ m_error' = [layer |-> layer, kind |-> "TypeError"]
                    /\ m_pc' = "error"
                    /\ attnLog' = IF callsAttn THEN Append(attnLog, entry) ELSE attnLog
                    /\ UNCHANGED <<layer, aux_losses, blockAux>>
               ELSE /\ attnLog' = IF callsAttn THEN Append(attnLog, entry) ELSE attnLog
                    /\ aux_losses' = Accumulate(aux_losses, aux)
                    /\ blockAux' = Append(blockAux, aux)
                    /\ layer' = layer + 1
                    /\ UNCHANGED <<m_pc, m_error>>
    /\ UNCHANGED <<m_params, m_ret>>

(***************************************************************************)
(* model, lines 474-517: logits and loss.                                  *)
(***************************************************************************)
ModelLoss ==
    /\ m_pc = "blocks"
    /\ layer = NLayer
    /\ \E lb \in LossBatches :
        m_ret' = IF m_params.mode = "train"
                 THEN [logits |-> {T("logits")},
                       loss |-> {FinalLoss(lb, Rat(aux_losses), m_params.num_microbatches)},
                       loss_batch |-> {lb}]
                 ELSE [logits |-> {T("logits")}, loss |-> {}, loss_batch |-> {}]
    /\ m_pc' = "done"
    /\ UNCHANGED <<m_params, context, layer, aux_losses, attnLog, blockAux, m_error>>

(***************************************************************************)
(* The sampling loop that drives gpt2.model in PREDICT: after the first    *)
(* pass it invokes the model in incremental mode at the current position   *)
(* with the states recorded by the previous invocation, and advances.      *)
(***************************************************************************)
SampleStep ==
    /\ m_pc = "done"
    /\ exists(context)
    /\ \E p \in 1..NCtx :
        /\ IF context.mode = "first_part" THEN TRUE ELSE p = context.position + 1
        /\ context' = [mode |-> "incremental", position |-> p,
                       states |-> context.new_states, new_states |-> <<>>]
    /\ m_pc' = "start"
    /\ m_ret' = NoRet
    /\ UNCHANGED <<m_params, layer, aux_losses, attnLog, blockAux, m_error>>

(***************************************************************************)
(* The serialized training step (model_fn lines 149-161): the model is     *)
(* invoked once per microbatch and the scalar outputs are summed.          *)
(***************************************************************************)
LossValues == {1, 4}

\* the examples of microbatch number mb (from 0) of a batch split in n
Microbatch(batch, n, mb) ==
    LET size == Len(batch) \div n
    IN  SubSeq(batch, mb * size + 1, (mb + 1) * size)

SerializedStep ==
    /\ s_pc = "loop"
    /\ s_mb < s_N
    /\ s_acc' = RatAdd(s_acc, FinalLoss(Microbatch(s_batch, s_N, s_mb),
                                        Rat(s_aux[s_mb + 1]), s_N))
    /\ s_mb' = s_mb + 1
    /\ UNCHANGED <<s_pc, s_N, s_batch, s_aux>>

SerializedDone ==
    /\ s_pc = "loop"
    /\ s_mb = s_N
    /\ s_pc' = "done"
    /\ UNCHANGED <<s_N, s_batch, s_aux, s_mb, s_acc>>

(***************************************************************************)
(* linear_attention, lines 75-91, in fixed point: keys in units of 1e-6,   *)
(* softmax weights in units of 1e-3, the quotient in units of 1e-2.        *)
(***************************************************************************)
\* epsilon=1e-6, in the unit of the keys
Epsilon == 1

\* exp at the integers the inputs take, in units of 1e-6
ExpMicro(x) ==
    CASE x = -1 -> 367879
      [] x = 0 -> 1000000
      [] x = 1 -> 2718282

\* mtf.softmax(q, dim_in), line 82
Softmax(q) ==
    LET e == [d \in 1..Len(q) |-> ExpMicro(q[d]) \div 1000]
    IN  [d \in 1..Len(q) |-> (e[d] * 1000) \div SumSeq(e)]

\* mtf.elu(k) + 1, line 83
EluPlusOne(x) == IF x > 0 THEN (x + 1) * 1000000 ELSE ExpMicro(x)

\* a sum over the whole sequence instead of the prefix
CumsumNonCausal(x, i) == SumSeq(x)

\* mtf.cumsum(x, seq_dim) at position i: the sum of x over positions 1..i
RECURSIVE Cumsum(_, _)
Cumsum(x, i) == IF i = 0 THEN 0 ELSE x[i] + Cumsum(x, i - 1)

\* lines 85-90 for one input, a sequence of [q, k, v] per position
linear_attention(inp) ==
    LET n == Len(inp)
        q(i) == Softmax(inp[i].q)
        k(d) == [j \in 1..n |-> EluPlusOne(inp[j].k[d])]
        context_(d, o) == [j \in 1..n |-> k(d)[j] * inp[j].v[o]]
        cumulative_k(i, d) == Cumsum(k(d), i)
        cumulative_context(i, d, o) ==
            (Cumsum(context_(d, o), i) * 100) \div (cumulative_k(i, d) + Epsilon)
    IN  [i \in 1..n |->
            [o \in 1..Len(inp[i].v) |->
                SumSeq([d \in 1..Len(inp[i].k) |-> q(i)[d] * cumulative_context(i, d, o)])]]

\* the values one sequence position of q, k and v can take
QValues == {<<0, 1>>, <<1, -1>>}
KValues == {<<-1, 0>>, <<1, 0>>}
VValues == {<<1>>, <<2>>}
LinearPositionValues == [q : QValues, k : KValues, v : VValues]

\* a second input that differs from the first at one position
Perturb ==
    /\ l_pc = "init"
    /\ \E j \in 1..Len(l_a), x \in LinearPositionValues :
        /\ x # l_a[j]
        /\ l_b' = [l_a EXCEPT ![j] = x]
    /\ l_pc' = "perturbed"
    /\ UNCHANGED <<l_a, l_out_a, l_out_b>>

ApplyLinear ==
    /\ l_pc = "perturbed"
    /\ l_out_a' = linear_attention(l_a)
    /\ l_out_b' = linear_attention(l_b)
    /\ l_pc' = "done"
    /\ UNCHANGED <<l_a, l_b>>

(***************************************************************************)
(* block (lines 311-373) in detail: one block applied to the embeddings,   *)
(* with the normalisations, residual gates, dropout ops, variables and     *)
(* shapes it builds.  The residual stream is a sum, kept as the sequence   *)
(* of its summands.                                                        *)
(***************************************************************************)
MaxMemKv == 1
MaxEmbd == 2

\* dropout settings: 0 and a positive rate (in tenths)
DropoutRates == {0, 1}

\* a summand of the residual stream: where it comes from and the scope of
\* the rezero scalar that multiplies it ("" when nothing multiplies it)
Term(src, gate) == [src |-> src, gate |-> gate]

\* a variable created by mtf.get_variable, with its initializer
Var(scope, name, init) == [scope |-> scope, name |-> name, init |-> init]

\* one call made while the block is built
Call(fn, scope, arg, size, rate) ==
    [fn |-> fn, scope |-> scope, arg |-> arg, size |-> size, rate |-> rate]

\* a selection that lets scalenorm take precedence over rezero
PrenormScaleNormFirst(p) ==
    IF p.scalenorm THEN "scale_norm"
    ELSE IF p.rezero THEN "identity"
    ELSE "layer_norm"

\* lines 321-326: the pre-normalisation function of the block
Prenorm(p) ==
    IF p.rezero THEN "identity"
    ELSE IF p.scalenorm THEN "scale_norm"
    ELSE "layer_norm"

\* the variables a pre-normalisation call creates: identity (17-18) none,
\* scale_norm (37-50) a scalar g from 1, layer_norm (53-72) g from 1 and b from 0
PrenormVars(fn, scope) ==
    CASE fn = "identity" -> {}
      [] fn = "scale_norm" -> {Var(scope, "g", "1")}
      [] fn = "layer_norm" -> {Var(scope, "g", "1"), Var(scope, "b", "0")}

\* line 328: pre_residual_fn = rezero if use_rezero else identity
PreResidualFn(p) == IF p.rezero THEN "rezero" ELSE "identity"

\* pre_residual_fn(a, scope, dtype): rezero (32-35) returns a * g, identity a
PreResidual(fn, a, scope) ==
    IF fn = "rezero" THEN [i \in 1..Len(a) |-> Term(a[i].src, scope)] ELSE a

\* rezero creates the scalar g of its scope, initialised to 0
PreResidualVars(fn, scope) == IF fn = "rezero" THEN {Var(scope, "g", "0")} ELSE {}

\* attention_params_simple (lines 152-158): the q, k, v and output kernels
AttnParamVars == {Var("attn", n, "random") : n \in {"q", "k", "v", "o"}}

\* lines 234-243: the learned memory keys and values
MemKvVars == {Var("attn", "mem_k", "random"), Var("attn", "mem_v", "random")}

\* lines 273-278: the output bias
OutputBiasVars == {Var("attn", "o_b", "0")}

\* model_fn line 84: memory_length_dim = mtf.Dimension("memory_length", length_dim.size)
MemoryLength(n_ctx) == n_ctx

\* lines 249-250: mtf.concat([mem_k, k], 'sequence') when num_mem_kv > 0
KeyLength(n_ctx, num_mem_kv) == IF num_mem_kv > 0 THEN num_mem_kv + n_ctx ELSE n_ctx

\* lines 252-253: mtf.replace_dimensions reshapes, which needs equal sizes
ReplaceDimensionsFits(oldSize, newSize) == oldSize = newSize

\* the attention dropout rate with the mode left out
AttnDropoutRateAnyMode(p) == p.attn_dropout

\* line 255: params["attn_dropout"] if params["mode"] == "train" else 0
AttnDropoutRate(p) == IF p.mode = "train" THEN p.attn_dropout ELSE 0

\* line 362: intermediate_size = nx.size * 4 * (1 if not use_mlp_glu else 2)
IntermediateSize(nx, use_mlp_glu) == nx * 4 * (IF ~use_mlp_glu THEN 1 ELSE 2)

\* lines 293-294 and 307-308: the dropout at the end of mlp and mlp_glu
MlpDropout(p) ==
    IF p.mode = "train" /\ p.res_dropout > 0
    THEN <<Call("dropout", "mlp_dropout", <<>>, 0, p.res_dropout)>>
    ELSE <<>>

\* mlp, lines 288-295
MlpCalls(p, nx, n_state) ==
    <<Call("linear", "c_fc", <<>>, n_state, 0),
      Call("gelu", "mlp", <<>>, n_state, 0),
      Call("linear", "c_proj", <<>>, nx, 0)>> \o MlpDropout(p)

\* mlp_glu, lines 298-309, past its first call of linear
MlpGluCalls(p, nx, n_state) ==
    <<Call("linear", "c_fc", <<>>, n_state, 0),
      Call("split", "mlp", <<>>, n_state \div 2, 0),
      Call("mul_gelu", "mlp", <<>>, n_state \div 2, 0),
      Call("linear", "c_proj", <<>>, nx, 0)>> \o MlpDropout(p)

MlpVars == {Var("mlp", "c_fc", "random"), Var("mlp", "c_proj", "random")}

BlockParamSets ==
    {p \in [mode : {"train", "eval", "predict"},
            context : {"none", "first_part", "incremental"},
            attention_type : ConfiguredTypes,
            rezero : BOOLEAN,
            scalenorm : BOOLEAN,
            mlp_glu : BOOLEAN,
            moe_layers : SUBSET {0},
            attn_dropout : DropoutRates,
            embed_dropout : DropoutRates,
            res_dropout : DropoutRates,
            num_mem_kv : 0..MaxMemKv,
            n_embd : 1..MaxEmbd] :
        (p.context # "none") = (p.mode = "predict")}

\* model, lines 437-439: dropout on the embedding tables, then the
\* embeddings h that enter the first block
BlockEmbed ==
    /\ b_pc = "start"
    /\ b_calls' = IF b_params.embed_dropout > 0 /\ b_params.mode = "train"
                  THEN <<Call("dropout", "wpe_dropout", <<>>, 0, b_params.embed_dropout),
                         Call("dropout", "wte_dropout", <<>>, 0, b_params.embed_dropout)>>
                  ELSE <<>>
    /\ b_x' = <<Term("input", "")>>
    /\ b_pc' = "embedded"
    /\ UNCHANGED <<b_params, b_variables, b_recorded, b_error>>

\* block, lines 321-340, with attn (lines 138-285) when it is called
BlockAttention ==
    /\ b_pc = "embedded"
    /\ \E same \in BOOLEAN :
        LET p == b_params
            type == p.attention_type
            callsAttn == IsNotNone(type, same)
            prenorm == Prenorm(p)
            gate == PreResidualFn(p)
            known == type \in {"local", "global", "linear"}
            klen == KeyLength(NCtx, p.num_mem_kv)
            fits == type = "global" => ReplaceDimensionsFits(klen, MemoryLength(NCtx))
            normCall == Call(prenorm, "norm_1", b_x, 0, 0)
            attnCall == Call("attention", type, <<>>,
                             IF type = "global" THEN klen ELSE NCtx,
                             IF type = "global" THEN AttnDropoutRate(p) ELSE 0)
            entered == b_variables \cup PrenormVars(prenorm, "norm_1") \cup AttnParamVars
            withMem == IF type = "global" /\ p.num_mem_kv > 0
                       THEN entered \cup MemKvVars ELSE entered
            records == IF p.context # "none" THEN 2 ELSE 0
        IN  /\ (type # "none" => same)
            /\ IF ~callsAttn
               THEN \* line 338: a = x; line 340: x = x + pre_residual_fn(a, ...)
                    /\ b_x' = b_x \o PreResidual(gate, b_x, "norm_rezero_1")
                    /\ b_variables' = b_variables \cup PreResidualVars(gate, "norm_rezero_1")
                    /\ b_pc' = "attended"
                    /\ UNCHANGED <<b_calls, b_recorded, b_error>>
               ELSE IF ~known
               THEN /\ b_error' = "NotImplementedError"
                    /\ b_pc' = "error"
                    /\ b_calls' = Append(b_calls, normCall)
                    /\ b_variables' = entered
                    /\ b_recorded' = records
                    /\ UNCHANGED b_x
               ELSE IF ~fits
               THEN /\ b_error' = "ValueError"
                    /\ b_pc' = "error"
                    /\ b_calls' = Append(b_calls, normCall)
                    /\ b_variables' = withMem
                    /\ b_recorded' = records
                    /\ UNCHANGED b_x
               ELSE /\ b_calls' = b_calls \o <<normCall, attnCall>>
                    /\ b_variables' = withMem \cup OutputBiasVars
                                      \cup PreResidualVars(gate, "norm_rezero_1")
                    /\ b_recorded' = records
                    /\ b_x' = b_x \o PreResidual(gate, <<Term("attn", "")>>, "norm_rezero_1")
                    /\ b_pc' = "attended"
                    /\ UNCHANGED b_error
    /\ UNCHANGED b_params

\* block, lines 342-371, with mlp, mlp_glu or the mixture-of-experts layer
BlockFeedForward ==
    /\ b_pc = "attended"
    /\ LET p == b_params
           prenorm == Prenorm(p)
           gate == PreResidualFn(p)
           use_moe == 0 \in p.moe_layers
           nx == p.n_embd
           normCall == Call(prenorm, "norm_2", b_x, 0, 0)
           normed == b_variables \cup PrenormVars(prenorm, "norm_2")
           n_state == IntermediateSize(nx, p.mlp_glu)
           moeCall == Call("moe", IF p.mode = "train" THEN "train" ELSE "no_train",
                           <<>>, nx, 0)
           src == IF use_moe THEN "moe" ELSE IF p.mlp_glu THEN "mlp_glu" ELSE "mlp"
           made == IF use_moe THEN <<moeCall>>
                   ELSE IF p.mlp_glu THEN MlpGluCalls(p, nx, n_state)
                   ELSE MlpCalls(p, nx, n_state)
       IN  IF ~use_moe /\ p.mlp_glu /\ ~MlpGluBinds
           THEN /\ b_error' = "TypeError"
                /\ b_pc' = "error"
                /\ b_calls' = Append(b_calls, normCall)
                /\ b_variables' = normed
                /\ UNCHANGED b_x
           ELSE /\ b_calls' = b_calls \o <<normCall>> \o made
                /\ b_variables' = normed \cup (IF use_moe THEN {} ELSE MlpVars)
                                  \cup PreResidualVars(gate, "norm_rezero_2")
                /\ b_x' = b_x \o PreResidual(gate, <<Term(src, "")>>, "norm_rezero_2")
                /\ b_pc' = "done"
                /\ UNCHANGED b_error
    /\ UNCHANGED <<b_params, b_recorded>>

(***************************************************************************)
(* Initial states and specifications.                                      *)
(***************************************************************************)
NoSearch == [kind |-> "none", targets |-> <<{}, {}>>, max_mesh_shape_dimensions |-> 0]

FnIdle ==
    /\ mode = "TRAIN"
    /\ params = [model |-> "GPT2", mode |-> "train", auto_layout |-> FALSE,
                 auto_layout_and_mesh_shape |-> FALSE, num_microbatches |-> 0]
    /\ pc = "idle"
    /\ graph = <<>>
    /\ lowerings = <<>>
    /\ exports = <<>>
    /\ built = NoBuild
    /\ optimizerCall = "none"
    /\ serializeCalls = 0
    /\ modelCalls = 0
    /\ layoutSearch = NoSearch
    /\ outcome = "running"
    /\ estimatorSpec = NoSpec

FnInit ==
    /\ mode \in Modes
    /\ params \in [model : ModelNames, mode : {"train", "eval"}, auto_layout : BOOLEAN,
                   auto_layout_and_mesh_shape : BOOLEAN, num_microbatches : {0}]
    /\ pc = "start"
    /\ graph = <<>>
    /\ lowerings = <<>>
    /\ exports = <<>>
    /\ built = NoBuild
    /\ optimizerCall = "none"
    /\ serializeCalls = 0
    /\ modelCalls = 0
    /\ layoutSearch = NoSearch
    /\ outcome = "running"
    /\ estimatorSpec = NoSpec

MdlIdle ==
    /\ m_pc = "idle"
    /\ m_params = [mode |-> "train", attention_types |-> [i \in 1..NLayer |-> "global"],
                   moe_layers |-> {}, mlp_glu |-> FALSE,
                   local_attention_radius |-> Radius, num_microbatches |-> 1]
    /\ context = NoContext
    /\ layer = 0
    /\ aux_losses = 0
    /\ attnLog = <<>>
    /\ blockAux = <<>>
    /\ m_error = NoError
    /\ m_ret = NoRet

\* gpt2.model is entered without a context (TRAIN, EVAL) or, from the
\* sampling loop, with the context of the first pass
MdlInit ==
    /\ m_pc = "start"
    /\ m_params \in ModelParamSets
    /\ context = IF m_params.mode = "predict" THEN FirstPart ELSE NoContext
    /\ layer = 0
    /\ aux_losses = 0
    /\ attnLog = <<>>
    /\ blockAux = <<>>
    /\ m_error = NoError
    /\ m_ret = NoRet

LossIdle ==
    /\ s_pc = "idle"
    /\ s_N = 1
    /\ s_batch = <<>>
    /\ s_aux = <<>>
    /\ s_mb = 0
    /\ s_acc = Rat(0)

LossInit ==
    /\ s_pc = "loop"
    /\ s_N \in 1..MaxMicrobatches
    /\ \E size \in 1..MaxMbSize : s_batch \in [1..(s_N * size) -> LossValues]
    /\ s_aux \in [1..s_N -> AuxValues]
    /\ s_mb = 0
    /\ s_acc = Rat(0)

LinIdle ==
    /\ l_pc = "idle"
    /\ l_a = <<>>
    /\ l_b = <<>>
    /\ l_out_a = <<>>
    /\ l_out_b = <<>>

LinInit ==
    /\ l_pc = "init"
    /\ l_a \in [1..MaxSeq -> LinearPositionValues]
    /\ l_b = l_a
    /\ l_out_a = <<>>
    /\ l_out_b = <<>>

BlkIdle ==
    /\ b_pc = "idle"
    /\ b_params = [mode |-> "train", context |-> "none", attention_type |-> "global",
                   rezero |-> FALSE, scalenorm |-> FALSE, mlp_glu |-> FALSE,
                   moe_layers |-> {}, attn_dropout |-> 0, embed_dropout |-> 0,
                   res_dropout |-> 0, num_mem_kv |-> 0, n_embd |-> 1]
    /\ b_x = <<>>
    /\ b_calls = <<>>
    /\ b_variables = {}
    /\ b_recorded = 0
    /\ b_error = ""

BlkInit ==
    /\ b_pc = "start"
    /\ b_params \in BlockParamSets
    /\ b_x = <<>>
    /\ b_calls = <<>>
    /\ b_variables = {}
    /\ b_recorded = 0
    /\ b_error = ""

Init == FnInit /\ MdlIdle /\ LossIdle /\ LinIdle /\ BlkIdle

Next ==
    \/ (Construct /\ UNCHANGED <<mdlVars, lossVars, linVars, blkVars>>)
    \/ (PredictSample /\ UNCHANGED <<mdlVars, lossVars, linVars, blkVars>>)
    \/ (PredictAnonymize /\ UNCHANGED <<mdlVars, lossVars, linVars, blkVars>>)
    \/ (PredictLower /\ UNCHANGED <<mdlVars, lossVars, linVars, blkVars>>)
    \/ (PredictExport /\ UNCHANGED <<mdlVars, lossVars, linVars, blkVars>>)
    \/ (PredictReturn /\ UNCHANGED <<mdlVars, lossVars, linVars, blkVars>>)
    \/ (NumMicrobatches /\ UNCHANGED <<mdlVars, lossVars, linVars, blkVars>>)
    \/ (BuildSerialized /\ UNCHANGED <<mdlVars, lossVars, linVars, blkVars>>)
    \/ (BuildDirect /\ UNCHANGED <<mdlVars, lossVars, linVars, blkVars>>)

Spec == Init /\ [][Next]_vars

\* model_fn continued past the build; no behaviour of Spec reaches it
NextFull == Next \/ (NextAfterBuild /\ UNCHANGED <<mdlVars, lossVars, linVars, blkVars>>)

InitModel == FnIdle /\ MdlInit /\ LossIdle /\ LinIdle /\ BlkIdle

NextModel ==
    \/ (ModelEmbed /\ UNCHANGED <<fnVars, lossVars, linVars, blkVars>>)
    \/ (ModelBlock /\ UNCHANGED <<fnVars, lossVars, linVars, blkVars>>)
    \/ (ModelLoss /\ UNCHANGED <<fnVars, lossVars, linVars, blkVars>>)
    \/ (SampleStep /\ UNCHANGED <<fnVars, lossVars, linVars, blkVars>>)

SpecModel == InitModel /\ [][NextModel]_vars

InitLoss == FnIdle /\ MdlIdle /\ LossInit /\ LinIdle /\ BlkIdle

NextLoss ==
    \/ (SerializedStep /\ UNCHANGED <<fnVars, mdlVars, linVars, blkVars>>)
    \/ (SerializedDone /\ UNCHANGED <<fnVars, mdlVars, linVars, blkVars>>)

SpecLoss == InitLoss /\ [][NextLoss]_vars

InitLinear == FnIdle /\ MdlIdle /\ LossIdle /\ LinInit /\ BlkIdle

NextLinear ==
    \/ (Perturb /\ UNCHANGED <<fnVars, mdlVars, lossVars, blkVars>>)
    \/ (ApplyLinear /\ UNCHANGED <<fnVars, mdlVars, lossVars, blkVars>>)

SpecLinear == InitLinear /\ [][NextLinear]_vars

InitBlock == FnIdle /\ MdlIdle /\ LossIdle /\ LinIdle /\ BlkInit

NextBlock ==
    \/ (BlockEmbed /\ UNCHANGED <<fnVars, mdlVars, lossVars, linVars>>)
    \/ (BlockAttention /\ UNCHANGED <<fnVars, mdlVars, lossVars, linVars>>)
    \/ (BlockFeedForward /\ UNCHANGED <<fnVars, mdlVars, lossVars, linVars>>)

SpecBlock == InitBlock /\ [][NextBlock]_vars

(***************************************************************************)
(* Claims.                                                                 *)
(***************************************************************************)
ErrorOutcomes == {"TypeError", "Exception", "AttributeError"}

\* C1: a TRAIN invocation with params["model"] = "GPT2" (and no auto-layout
\* flag) never ends in an error: it returns a result carrying a train op
\* and the loss, and every gpt2.model call it makes binds all parameters.
C1_TrainReturnsTrainOpAndLoss ==
    (pc = "done" /\ mode = "TRAIN" /\ params.model = "GPT2" /\ NoAutoLayout)
        => /\ outcome = "returned"
           /\ estimatorSpec.train_op # {}
           /\ estimatorSpec.loss # {}
           /\ ModelFnCallBinds

\* C2: when params["mode"] is not "train" (an EVAL invocation), gpt2.model
\* returns a loss and a loss_batch that are not None.
C2_EvalModelReturnsLoss ==
    (m_pc = "done" /\ m_params.mode = "eval")
        => (m_ret.loss # {} /\ m_ret.loss_batch # {})

\* C3: in incremental mode at position p, the attention output holds the
\* single position p - 1, and the key/value positions with a say in it are
\* those of the non-incremental pass at p - 1, all of them <= p - 1.
C3_IncrementalSeesWhatFullPassSees ==
    \A n \in 1..Len(attnLog) :
        LET e == attnLog[n]
            cur == e.position - 1
        IN  (e.incremental /\ 1 <= e.position /\ e.position <= NCtx)
                => /\ e.out.positions = {cur}
                   /\ e.out.sees[cur] = FullPassSees(e.type, m_params.local_attention_radius, cur)
                   /\ \A j \in e.out.sees[cur] : j <= cur

\* C4: linear_attention is causal: two inputs that agree at every position
\* up to i give the same output at position i.
C4_LinearAttentionCausal ==
    l_pc = "done"
        => \A i \in 1..Len(l_a) :
               (\A j \in 1..i : l_a[j] = l_b[j]) => l_out_a[i] = l_out_b[i]

\* C4 witness: the inputs agree on a prefix, differ after it, and the
\* outputs differ after it
C4_Witness ==
    /\ l_pc = "done"
    /\ \E i \in 1..Len(l_a) :
          /\ \A j \in 1..i : l_a[j] = l_b[j]
          /\ \E j \in (i + 1)..Len(l_a) : l_a[j] # l_b[j] /\ l_out_a[j] # l_out_b[j]

\* C5: in every mode an invocation with params["model"] # "GPT2" ends in an
\* error raised while the graph is built, before any optimizer, anonymize,
\* Lowering or export step, and returns nothing.
C5_UnknownModelIsFatal ==
    (pc = "done" /\ params.model # "GPT2")
        => /\ outcome \in ErrorOutcomes
           /\ optimizerCall = "none"
           /\ \A i \in 1..Len(graph) : graph[i].op # "anonymize"
           /\ lowerings = <<>>
           /\ exports = <<>>
           /\ estimatorSpec = NoSpec

\* C6: building the block stack raises for a layer exactly when that
\* layer's configured attention type is none of global, local, linear, none
\* (and then nothing is returned); a layer of one of the four types does
\* not raise the unknown-attention-type error.
C6_UnknownTypeErrorIffInvalidType ==
    /\ (m_error.kind = "NotImplementedError"
          => /\ m_params.attention_types[m_error.layer + 1] \notin AttentionTypes
             /\ m_ret = NoRet)
    /\ (m_pc = "done" => \A l \in 1..NLayer : m_params.attention_types[l] \in AttentionTypes)

C8_WrapperIffSeveralMicrobatches ==
    (pc = "done" /\ mode = "TRAIN" /\ params.model = "GPT2" /\ NoAutoLayout)
        => IF params.num_microbatches > 1
           THEN serializeCalls = 1 /\ built.var_grads /\ optimizerCall = "inp_var_grads"
           ELSE serializeCalls = 0 /\ modelCalls = 1 /\ optimizerCall = "plain"

\* C9: the sum of the N per-microbatch losses over an equal split equals the
\* loss of the whole batch with N = 1, the auxiliary loss taken as its mean
\* over the microbatches.
C9_SerializedLossEqualsWholeBatchLoss ==
    s_pc = "done"
        => RatEq(s_acc, FinalLoss(s_batch, <<SumSeq(s_aux), s_N>>, 1))

\* C9 witness: several microbatches of several examples with unequal
\* per-example losses and a nonzero auxiliary loss have been accumulated
C9_Witness ==
    /\ s_pc = "done"
    /\ s_N > 1
    /\ Len(s_batch) > s_N
    /\ Cardinality(Range(s_batch)) > 1
    /\ SumSeq(s_aux) > 0
    /\ s_mb = s_N

\* C10: with an auto-layout flag set, a TRAIN or EVAL invocation runs the
\* layout search on [logits, loss], then halts without optimizer, Lowering,
\* export or result; the layout-and-mesh search is bounded to 4 mesh axes
\* and with both flags set only the layout search runs.
C10_AutoLayoutSearchesAndHalts ==
    (pc = "done" /\ mode \in {"TRAIN", "EVAL"} /\ params.model = "GPT2" /\ ~NoAutoLayout)
        => /\ outcome = "quit"
           /\ layoutSearch.kind =
                 (IF params.auto_layout THEN "layout" ELSE "layout_and_mesh_shape")
           /\ layoutSearch.targets = <<{T("logits")}, {T("loss")}>>
           /\ (layoutSearch.kind = "layout_and_mesh_shape"
                 => layoutSearch.max_mesh_shape_dimensions = 4)
           /\ optimizerCall = "none"
           /\ lowerings = <<>>
           /\ exports = <<>>
           /\ estimatorSpec = NoSpec

(***************************************************************************)
(* C11: when a layer's configured attention type is 'none', the attention  *)
(* sub-layer is an identity passthrough: the value entering the second     *)
(* pre-normalisation is the block input x unchanged, no attention variable *)
(* is created and no state is recorded into the decode context.            *)
(***************************************************************************)
C11_NoneIsIdentityPassthrough ==
    (b_params.attention_type = "none" /\ b_pc \in {"attended", "done", "error"}) =>
        /\ b_pc = "attended" => b_x = <<Term("input", "")>>
        /\ \A i \in 1..Len(b_calls) :
               b_calls[i].scope = "norm_2" => b_calls[i].arg = <<Term("input", "")>>
        /\ \A v \in b_variables : v.scope # "attn"
        /\ b_recorded = 0

(***************************************************************************)
(* C12: global attention takes a memory bank of any size num_mem_kv >= 0:  *)
(* after the learned entries are prepended, the length of the keys and     *)
(* values equals the size of memory_length_dim (and of the bias mask's     *)
(* memory_length axis), so the relabelling raises no size mismatch.        *)
(***************************************************************************)
C12_MemoryBankFitsMemoryLength ==
    (b_params.attention_type = "global" /\ b_pc \in {"attended", "done", "error"}) =>
        /\ KeyLength(NCtx, b_params.num_mem_kv) = MemoryLength(NCtx)
        /\ b_error # "ValueError"

(***************************************************************************)
(* C13: decode-cache correspondence.  Within one invocation with a         *)
(* context the layers that record state are exactly the layers whose       *)
(* attention type is not 'none', each records two states, k then v, in     *)
(* layer order, and in incremental mode what a layer splices into is what  *)
(* the same layer recorded at the step before.                             *)
(***************************************************************************)
C13_CacheMatchesAttentionLayers ==
    LET entered == (0..(layer - 1)) \cup (IF m_pc = "error" THEN {m_error.layer} ELSE {})
        recording == {l \in entered : m_params.attention_types[l + 1] # "none"}
    IN  (exists(context) /\ m_pc \in {"blocks", "done", "error"}) =>
            /\ Len(context.new_states) = 2 * Cardinality(recording)
            /\ \A n \in 1..Len(context.new_states) : \A i \in Positions :
                   /\ context.new_states[n][i].kind = (IF n % 2 = 1 THEN "k" ELSE "v")
                   /\ context.new_states[n][i].layer \in recording
                   /\ Cardinality({l \in recording : l < context.new_states[n][i].layer})
                          = (n - 1) \div 2

(***************************************************************************)
(* C14: every invocation of model_fn that returns a result built one graph *)
(* and exactly one Lowering of it, every operation of the graph was added  *)
(* before that Lowering was constructed, and nothing is appended to the    *)
(* graph afterwards.                                                       *)
(***************************************************************************)
C14_OneLoweringOfTheWholeGraph ==
    /\ [](outcome = "returned" =>
            /\ Len(lowerings) = 1
            /\ lowerings[1].graphLen = Len(graph)
            /\ lowerings[1].ops = Range(graph))
    /\ [][/\ Len(graph') >= Len(graph)
          /\ SubSeq(graph', 1, Len(graph)) = graph
          /\ (lowerings # <<>> => graph' = graph)
          /\ Len(lowerings') \in {Len(lowerings), Len(lowerings) + 1}]_vars

C14_Witness ==
    /\ outcome = "returned"
    /\ Len(lowerings) = 1
    /\ \E i \in 1..Len(graph) : graph[i].op = "anonymize"
    /\ \E i \in 1..Len(graph) : graph[i].op = "sample_autoregressive"

(***************************************************************************)
(* C15: the result model_fn returns carries a restore hook built from the  *)
(* Lowering of the same invocation, passed as training_hooks in TRAIN,     *)
(* evaluation_hooks in EVAL and prediction_hooks in PREDICT; in PREDICT    *)
(* the local initialisation also runs copy_masters_to_slices of that       *)
(* Lowering.                                                               *)
(***************************************************************************)
C15_RestoreHookOfOwnLowering ==
    outcome = "returned" =>
        /\ Len(lowerings) = 1
        /\ Len(estimatorSpec.hooks) = 1
        /\ estimatorSpec.hooks[1].lowering = Len(lowerings)
        /\ estimatorSpec.hooks[1].arg =
               (CASE estimatorSpec.mode = "TRAIN" -> "training_hooks"
                  [] estimatorSpec.mode = "EVAL" -> "evaluation_hooks"
                  [] estimatorSpec.mode = "PREDICT" -> "prediction_hooks")
        /\ estimatorSpec.mode = mode
        /\ (mode = "PREDICT" => estimatorSpec.local_init = {Len(lowerings)})

C15_Witness ==
    /\ outcome = "returned"
    /\ mode = "PREDICT"
    /\ estimatorSpec.hooks = <<[arg |-> "prediction_hooks", lowering |-> 1]>>
    /\ estimatorSpec.local_init = {1}
    /\ Len(exports) = 3

(***************************************************************************)
(* C16: in incremental mode with 1 <= position <= n_ctx the key (value)    *)
(* tensor a layer records is the spliced one: the newly computed key       *)
(* (value) at sequence index position - 1 and the cached key (value) at    *)
(* every other index.                                                      *)
(***************************************************************************)
C16_SpliceKeepsAllButCurrentPosition ==
    (is_incremental_inference(context) /\ m_pc \in {"blocks", "done", "error"}) =>
        /\ context.position \in 1..NCtx
        /\ Len(context.new_states) <= Len(context.states)
        /\ \A n \in 1..Len(context.new_states) : \A i \in Positions :
               IF i = context.position - 1
               THEN /\ context.new_states[n][i].step = context.position
                    /\ context.new_states[n][i].kind = (IF n % 2 = 1 THEN "k" ELSE "v")
               ELSE context.new_states[n][i] = context.states[n][i]

C16_Witness ==
    /\ is_incremental_inference(context)
    /\ m_pc = "done"
    /\ context.position = 2
    /\ Len(context.new_states) = 2 * NLayer
    /\ context.new_states[1][1] = Entry("k", 0, 2)
    /\ context.new_states[1][0] = Entry("k", 0, 1)
    /\ context.new_states[1][2] = Entry("k", 0, 0)
    /\ context.new_states[2][1] = Entry("v", 0, 2)

(***************************************************************************)
(* C17: auxiliary losses accumulate additively.  A block's auxiliary loss  *)
(* is zero unless its layer is in moe_layers, the accumulator starts at    *)
(* zero, after the stack it equals the sum of the per-block losses, and in *)
(* train mode that sum is added to mean(loss_batch) exactly once.          *)
(***************************************************************************)
C17_AuxLossesAccumulate ==
    (m_pc \in {"blocks", "done"}) =>
        /\ Len(blockAux) = layer
        /\ aux_losses = SumSeq(blockAux)
        /\ \A l \in 1..Len(blockAux) : (l - 1) \notin m_params.moe_layers => blockAux[l] = 0
        /\ (m_params.moe_layers = {} => aux_losses = 0)
        /\ (m_pc = "done" /\ m_params.mode = "train") =>
               /\ layer = NLayer
               /\ \A loss \in m_ret.loss : \A lb \in m_ret.loss_batch :
                      RatEq(loss, RatDiv(RatAdd(reduce_mean(lb), Rat(SumSeq(blockAux))),
                                         m_params.num_microbatches))
               /\ m_ret.loss # {}

C17_Witness ==
    /\ m_pc = "done"
    /\ m_params.mode = "train"
    /\ Len(blockAux) = NLayer
    /\ SumSeq(blockAux) >= 2
    /\ \E l \in 1..NLayer : m_params.attention_types[l] = "local"
    /\ m_ret.loss # {}

(***************************************************************************)
(* C18: dropout is active only in training.  Whenever params['mode'] is    *)
(* not 'train' the attention is given dropout rate 0 and no embedding or   *)
(* residual/MLP dropout op is added, for every setting of attn_dropout,    *)
(* embed_dropout and res_dropout and every attention type.                 *)
(***************************************************************************)
C18_NoDropoutOutsideTraining ==
    b_params.mode # "train" =>
        \A i \in 1..Len(b_calls) :
            /\ b_calls[i].fn # "dropout"
            /\ b_calls[i].rate = 0
            /\ (b_calls[i].fn = "moe" => b_calls[i].scope = "no_train")

C18_Witness ==
    /\ b_pc = "done"
    /\ b_params.mode = "eval"
    /\ b_params.attn_dropout > 0
    /\ b_params.embed_dropout > 0
    /\ b_params.res_dropout > 0
    /\ b_params.attention_type = "global"
    /\ \E i \in 1..Len(b_calls) : b_calls[i].fn = "attention" /\ b_calls[i].rate = 0
    /\ \E i \in 1..Len(b_calls) : b_calls[i].fn = "linear" /\ b_calls[i].scope = "c_proj"

(***************************************************************************)
(* C19: with mlp_glu enabled and no mixture-of-experts for the layer, the  *)
(* feed-forward sub-layer builds without error: a hidden projection of     *)
(* width 2 * 4 * n_embd, split into halves of width 4 * n_embd, one half   *)
(* times gelu of the other, projected back to n_embd; every call of linear *)
(* supplies the parameters linear requires.                                *)
(***************************************************************************)
C19_MlpGluBuilds ==
    (b_params.mlp_glu /\ 0 \notin b_params.moe_layers) =>
        /\ b_error # "TypeError"
        /\ b_pc = "done" =>
               \E i \in 1..Len(b_calls) :
                   /\ i + 3 <= Len(b_calls)
                   /\ b_calls[i] = Call("linear", "c_fc", <<>>, 2 * 4 * b_params.n_embd, 0)
                   /\ b_calls[i + 1] = Call("split", "mlp", <<>>, 4 * b_params.n_embd, 0)
                   /\ b_calls[i + 2] = Call("mul_gelu", "mlp", <<>>, 4 * b_params.n_embd, 0)
                   /\ b_calls[i + 3] = Call("linear", "c_proj", <<>>, b_params.n_embd, 0)

(***************************************************************************)
(* C20: for every combination of rezero and scalenorm a block uses one     *)
(* pre-normalisation for both sub-layers: identity if rezero is set,       *)
(* otherwise scale-only norm if scalenorm is set, otherwise layer norm     *)
(* with learned scale and bias; each of the two residual branches is       *)
(* multiplied by its own learned scalar initialised to zero if and only if *)
(* rezero is set, and is added ungated otherwise.                          *)
(***************************************************************************)
C20_PrenormAndResidualGate ==
    LET expected == IF b_params.rezero THEN "identity"
                    ELSE IF b_params.scalenorm THEN "scale_norm" ELSE "layer_norm"
        varsOf(scope) == {[name |-> v.name, init |-> v.init] :
                              v \in {w \in b_variables : w.scope = scope}}
        normVars == CASE expected = "identity" -> {}
                      [] expected = "scale_norm" -> {[name |-> "g", init |-> "1"]}
                      [] expected = "layer_norm" -> {[name |-> "g", init |-> "1"],
                                                     [name |-> "b", init |-> "0"]}
        gateVars == IF b_params.rezero THEN {[name |-> "g", init |-> "0"]} ELSE {}
        gateOf(scope) == IF b_params.rezero THEN scope ELSE ""
    IN  /\ \A i \in 1..Len(b_calls) :
               b_calls[i].scope \in {"norm_1", "norm_2"} =>
                   /\ b_calls[i].fn = expected
                   /\ varsOf(b_calls[i].scope) = normVars
        /\ b_pc \in {"attended", "done"} =>
               /\ b_x[1] = Term("input", "")
               /\ b_x[2].gate = gateOf("norm_rezero_1")
               /\ varsOf("norm_rezero_1") = gateVars
        /\ b_pc = "attended" => Len(b_x) = 2
        /\ b_pc = "done" =>
               /\ Len(b_x) = 3
               /\ b_x[3].gate = gateOf("norm_rezero_2")
               /\ varsOf("norm_rezero_2") = gateVars
               /\ \E i \in 1..Len(b_calls) : b_calls[i].scope = "norm_2"
               /\ (b_x[2].src = "attn" =>
                       \E i \in 1..Len(b_calls) : b_calls[i].scope = "norm_1")

C20_Witness ==
    /\ b_pc = "done"
    /\ b_params.rezero
    /\ b_params.scalenorm
    /\ b_params.attention_type = "local"
    /\ b_x = <<Term("input", ""), Term("attn", "norm_rezero_1"), Term("mlp", "norm_rezero_2")>>
    /\ \E i \in 1..Len(b_calls) : b_calls[i] = Call("identity", "norm_1", <<Term("input", "")>>, 0, 0)
    /\ Var("norm_rezero_1", "g", "0") \in b_variables
    /\ Var("norm_rezero_2", "g", "0") \in b_variables
====
